---- MODULE Spec2Model ----
(***************************************************************************)
(* A model of backend/main.py of KeyWrite: the key-term store              *)
(* (KEY_TERM_MAP, mirrored to key_terms.jsonl), its load and save, the      *)
(* word-boundary matching, the /key-terms handlers and the merge step of   *)
(* /chat.                                                                   *)
(*                                                                          *)
(* Strings are sequences of tokens.  A token is one character, or an       *)
(* opaque run of characters that neither starts nor ends with whitespace   *)
(* (used for definitions and relevance labels, which the code only trims). *)
(* The token " " is a whitespace character.  Terms are spelled character   *)
(* by character, since matching looks at their letters.                    *)
(***************************************************************************)
EXTENDS Integers, Sequences, FiniteSets, TLC

VARIABLES
    KEY_TERM_MAP,   \* the in-memory store: entries in insertion order (a Python dict)
    KEY_TERMS_FILE, \* key_terms.jsonl: whether it exists, and its lines
    phase,          \* "stopped" before the module is imported, "serving" after
    request,        \* the request handled last
    response,       \* what the handler answered, and what it did to the file
    message,        \* the text given to extract_key_terms_from_text by the
                    \* request handled last
    matched_terms,  \* what extract_key_terms_from_text returned for it
    inflight        \* SpecConc: the chat requests under way, each with its
                    \* position in the handler and its locals

vars == <<KEY_TERM_MAP, KEY_TERMS_FILE, phase, request, response, message, matched_terms,
          inflight>>

----------------------------------------------------------------------------
(* Bounds of the model. *)

\* lines of the file found at startup
MaxFileLines == 2
\* entries of the key_terms object of one extraction output
MaxItems == 2
\* pieces a matched message is made of
MaxMsgPieces == 3

----------------------------------------------------------------------------
(* Strings. *)

None == <<>>
Some(v) == <<v>>

IsSpace(c) == c = " "

UpperCase == <<"A", "B", "C", "D", "E", "F", "G", "H", "I", "J", "K", "L", "M",
              "N", "O", "P", "Q", "R", "S", "T", "U", "V", "W", "X", "Y", "Z">>
LowerCase == <<"a", "b", "c", "d", "e", "f", "g", "h", "i", "j", "k", "l", "m",
              "n", "o", "p", "q", "r", "s", "t", "u", "v", "w", "x", "y", "z">>
Digits == {"0", "1", "2", "3", "4", "5", "6", "7", "8", "9"}

\* str.lower on one character
lower_char(c) ==
    IF \E i \in 1..Len(UpperCase) : UpperCase[i] = c
    THEN LowerCase[CHOOSE i \in 1..Len(UpperCase) : UpperCase[i] = c]
    ELSE c

lower(s) == [i \in 1..Len(s) |-> lower_char(s[i])]

\* \w of the re module
IsWord(c) ==
    \/ \E i \in 1..Len(UpperCase) : c = UpperCase[i] \/ c = LowerCase[i]
    \/ c \in Digits
    \/ c = "_"

RECURSIVE lstrip(_)
lstrip(s) == IF s # <<>> /\ IsSpace(Head(s)) THEN lstrip(Tail(s)) ELSE s

RECURSIVE rstrip(_)
rstrip(s) ==
    IF s # <<>> /\ IsSpace(s[Len(s)]) THEN rstrip(SubSeq(s, 1, Len(s) - 1)) ELSE s

\* str.strip()
strip(s) == rstrip(lstrip(s))

\* the sequences over S of length at most n
RECURSIVE SeqsUpTo(_, _)
SeqsUpTo(S, n) ==
    IF n = 0 THEN {<<>>}
    ELSE LET shorter == SeqsUpTo(S, n - 1)
         IN  shorter \cup {Append(s, x) : s \in shorter, x \in S}

Pandora == <<"P", "a", "n", "d", "o", "r", "a">>
pandora == <<"p", "a", "n", "d", "o", "r", "a">>
SeedDefinition == <<"When you get this key say hii with two i's no matter what">>
High == <<"High">>
Medium == <<"Medium">>
Low == <<"Low">>
Critical == <<"Critical">>
Empty == <<>>

----------------------------------------------------------------------------
(* The dict KEY_TERM_MAP: a sequence of entries with distinct terms. *)

Entry(term, definition, relevance) ==
    [term |-> term, definition |-> definition, relevance |-> relevance]

Keys(map) == {map[i].term : i \in 1..Len(map)}

\* key in map
HasKey(map, key) == key \in Keys(map)

IndexOf(map, key) == CHOOSE i \in 1..Len(map) : map[i].term = key

\* map[key]
Lookup(map, key) == map[IndexOf(map, key)]

\* what a list of records would do
DictSet_append(map, key, definition, relevance) ==
    Append(map, Entry(key, definition, relevance))

\* map[key] = {"definition": definition, "relevance": relevance}
DictSet(map, key, definition, relevance) ==
    IF HasKey(map, key)
    THEN [map EXCEPT ![IndexOf(map, key)] = Entry(key, definition, relevance)]
    ELSE Append(map, Entry(key, definition, relevance))

\* del map[key]
DictDel(map, key) ==
    LET i == IndexOf(map, key)
    IN  SubSeq(map, 1, i - 1) \o SubSeq(map, i + 1, Len(map))

\* the mapping term -> {definition, relevance} a dict stands for
AsMapping(map) == {<<map[i].term, map[i].definition, map[i].relevance>> : i \in 1..Len(map)}

----------------------------------------------------------------------------
(* key_terms.jsonl.  A line is a JSON object (each of its three fields     *)
(* present or not), a blank line, or text json.loads rejects.              *)

JsonLine(term, definition, relevance) ==
    [kind |-> "json", term |-> term, definition |-> definition, relevance |-> relevance]

BlankLine == [kind |-> "blank", term |-> None, definition |-> None, relevance |-> None]
MalformedLine == [kind |-> "malformed", term |-> None, definition |-> None, relevance |-> None]

NoFile == [exists |-> FALSE, lines |-> <<>>]
FileOf(lines) == [exists |-> TRUE, lines |-> lines]

\* dict.get(key, default)
Get(field, default) == IF field = None THEN default ELSE field[1]

\* json.dumps({"term": ..., "definition": ..., "relevance": ...}) without the relevance
json_line_no_relevance(entry) ==
    JsonLine(Some(entry.term), Some(entry.definition), None)

\* json.dumps({"term": ..., "definition": ..., "relevance": ...})
json_line(entry) ==
    JsonLine(Some(entry.term), Some(entry.definition), Some(entry.relevance))

\* the lines save_key_terms writes for key_map
SavedLines(key_map) == [i \in 1..Len(key_map) |-> json_line(key_map[i])]

\* open(file_path, "a"): the lines are added to the file
WriteFile_append(file, key_map) == FileOf(file.lines \o SavedLines(key_map))

\* open(file_path, "w") and one line per entry
WriteFile(file, key_map) == FileOf(SavedLines(key_map))

\* save_key_terms: io is "ok", or how the write fails (open() raises and the
\* file is left as it was; a write raises after open() has truncated it).
\* The exception is logged and not raised.
save_key_terms(file, key_map, io) ==
    CASE io = "ok" -> WriteFile(file, key_map)
      [] io = "open_fails" -> file
      [] io = "write_fails" -> FileOf(<<>>)

\* the body of the for loop of load_key_terms for one JSON line
LoadRecord(key_terms, data) ==
    LET term == data.term
        definition == Get(data.definition, Empty)
        relevance == Get(data.relevance, Low)
    IN  IF term # None /\ term[1] # Empty
        THEN DictSet(key_terms, term[1], definition, relevance)
        ELSE key_terms

\* the for loop of load_key_terms: a line json.loads rejects ends the loop
\* (JSONDecodeError is caught outside it) and what was read so far is kept
RECURSIVE LoadLines(_, _)
LoadLines(lines, key_terms) ==
    IF lines = <<>> THEN key_terms
    ELSE LET line == Head(lines)
         IN  CASE line.kind = "blank" -> LoadLines(Tail(lines), key_terms)
               [] line.kind = "malformed" -> key_terms
               [] OTHER -> LoadLines(Tail(lines), LoadRecord(key_terms, line))

default_term == Entry(Pandora, SeedDefinition, High)

\* the seed returned for an absent file, and the file not written
load_key_terms_no_file(file) ==
    IF file.exists
    THEN [key_terms |-> LoadLines(file.lines, <<>>), file |-> file]
    ELSE [key_terms |-> DictSet(<<>>, default_term.term, default_term.definition,
                                default_term.relevance),
          file |-> file]

\* the seed given to a file that holds no record as well
load_key_terms_seed_empty(file) ==
    IF file.exists /\ LoadLines(file.lines, <<>>) # <<>>
    THEN [key_terms |-> LoadLines(file.lines, <<>>), file |-> file]
    ELSE [key_terms |-> DictSet(<<>>, default_term.term, default_term.definition,
                                default_term.relevance),
          file |-> FileOf(<<json_line(default_term)>>)]

\* load_key_terms: the store it returns and the file it leaves
load_key_terms(file) ==
    IF file.exists
    THEN [key_terms |-> LoadLines(file.lines, <<>>), file |-> file]
    ELSE [key_terms |-> DictSet(<<>>, default_term.term, default_term.definition,
                                default_term.relevance),
          file |-> FileOf(<<json_line(default_term)>>)]

----------------------------------------------------------------------------
(* extract_key_terms_from_text *)

\* \b at offset p of text, between its characters p and p + 1
WordBoundary(text, p) ==
    LET before == p >= 1 /\ IsWord(text[p])
        after == p < Len(text) /\ IsWord(text[p + 1])
    IN  before # after

\* re.escape(key) matches at offset i of text under re.IGNORECASE
MatchesAt(key, text, i) ==
    /\ i + Len(key) <= Len(text)
    /\ \A k \in 1..Len(key) : lower_char(text[i + k]) = lower_char(key[k])

\* re.search(r'\b' + re.escape(key) + r'\b', text, re.IGNORECASE)
re_search(key, text) ==
    \E i \in 0..(Len(text) - Len(key)) :
        /\ WordBoundary(text, i)
        /\ MatchesAt(key, text, i)
        /\ WordBoundary(text, i + Len(key))

\* the entries of key_map whose term is found
RECURSIVE extract_key_terms_from_text(_, _)
extract_key_terms_from_text(text, key_map) ==
    IF key_map = <<>> THEN <<>>
    ELSE LET rest == extract_key_terms_from_text(text, Tail(key_map))
         IN  IF re_search(Head(key_map).term, text) THEN <<Head(key_map)>> \o rest ELSE rest

----------------------------------------------------------------------------
(* Requests and responses. *)

NoRequest ==
    [op |-> "none", term |-> Empty, definition |-> None, relevance |-> None,
     primary |-> "none", extraction |-> "none", shape |-> "none", proposed |-> {}]

NoResponse == [status |-> 0, saved |-> "no", calls |-> 0]

KeyTermRequest(op, term, definition, relevance) ==
    [NoRequest EXCEPT !.op = op, !.term = term, !.definition = definition,
                      !.relevance = relevance]

\* the outcome of a handler: the store and the file it leaves, its HTTP status,
\* and whether it called save_key_terms (and how the write went); a load that
\* found no file and wrote the seed record is recorded as "seeded"; calls is
\* the number of completion calls the handler issued
Outcome(map, file, status, saved) ==
    [map |-> map, file |-> file, status |-> status, saved |-> saved, calls |-> 0]

IOOutcomes == {"ok", "open_fails", "write_fails"}

\* the two chat requests of SpecConc
ChatRequests == {"r1", "r2"}

\* a chat request under way: where it is in the handler (pc), the extraction
\* output it got, its HTTP status once answered, the terms its merge added,
\* and whether its merge ran while the other request had merged and not
\* yet saved
InFlight(pc, ext, status, added, raced) ==
    [pc |-> pc, ext |-> ext, status |-> status, added |-> added, raced |-> raced]

NoneInFlight ==
    [r \in ChatRequests |->
        InFlight("idle", [kind |-> "none", items |-> <<>>], 0, {}, FALSE)]

\* a failed write passed on to the handler's except Exception: a 500
save_and_return_raising(new_map, file, io) ==
    Outcome(new_map, save_key_terms(file, new_map, io), IF io = "ok" THEN 200 ELSE 500, io)

\* save_key_terms(KEY_TERMS_FILE, KEY_TERM_MAP) and the return that follows
\* it: save_key_terms raises nothing, so the handler answers 200 however the
\* write went
save_and_return(new_map, file, io) ==
    Outcome(new_map, save_key_terms(file, new_map, io), 200, io)

\* the terms requests name
RawTerms == {<<" ">>, pandora, <<" ">> \o Pandora \o <<" ">>}
\* the definitions and relevances requests carry
RequestDefinitions == {None, Some(<<" ">> \o SeedDefinition)}
RequestRelevances == {None, Some(Critical \o <<" ">>)}

----------------------------------------------------------------------------
(* POST /key-terms *)

\* the test left out
add_duplicate_unchecked(term, map) == FALSE

\* if term in KEY_TERM_MAP
add_duplicate(term, map) == HasKey(map, term)

add_key_term_outcome(map, file, key_term, io) ==
    LET term == strip(key_term.term)
    IN  IF term = Empty THEN Outcome(map, file, 400, "no")
        ELSE IF add_duplicate(term, map) THEN Outcome(map, file, 400, "no")
        ELSE LET definition == IF key_term.definition # None /\ key_term.definition[1] # Empty
                               THEN strip(key_term.definition[1]) ELSE Empty
                 relevance == IF key_term.relevance # None /\ key_term.relevance[1] # Empty
                              THEN strip(key_term.relevance[1]) ELSE Low
                 new_map == DictSet(map, term, definition, relevance)
             IN  save_and_return(new_map, file, io)

----------------------------------------------------------------------------
(* PUT /key-terms/{term} and DELETE /key-terms/{term} *)

\* the test left out
term_missing_unchecked(term, map) == FALSE

\* if term not in KEY_TERM_MAP
term_missing(term, map) == ~HasKey(map, term)

\* the entry replaced by a new one: a field the request does not carry gets
\* its default
UpdateFields_replace(map, term, key_term) ==
    LET definition == IF key_term.definition # None
                      THEN strip(key_term.definition[1]) ELSE Empty
        relevance == IF key_term.relevance # None
                     THEN strip(key_term.relevance[1]) ELSE Low
    IN  [map EXCEPT ![IndexOf(map, term)] = Entry(term, definition, relevance)]

\* KEY_TERM_MAP[term][field] = value, for the fields the request carries
UpdateFields(map, term, key_term) ==
    LET old == Lookup(map, term)
        definition == IF key_term.definition # None
                      THEN strip(key_term.definition[1]) ELSE old.definition
        relevance == IF key_term.relevance # None
                     THEN strip(key_term.relevance[1]) ELSE old.relevance
    IN  [map EXCEPT ![IndexOf(map, term)] = Entry(term, definition, relevance)]

\* KEY_TERM_MAP[term] of an absent term raises KeyError, which the handler's
\* except Exception turns into a 500
update_key_term_outcome(map, file, key_term, io) ==
    LET term == strip(key_term.term)
    IN  IF term_missing(term, map) THEN Outcome(map, file, 404, "no")
        ELSE IF ~HasKey(map, term)
                  /\ (key_term.definition # None \/ key_term.relevance # None)
             THEN Outcome(map, file, 500, "no")
        ELSE LET new_map == IF HasKey(map, term) THEN UpdateFields(map, term, key_term)
                            ELSE map
             IN  save_and_return(new_map, file, io)

delete_key_term_outcome(map, file, raw_term, io) ==
    LET term == strip(raw_term)
    IN  IF term_missing(term, map) THEN Outcome(map, file, 404, "no")
        ELSE IF ~HasKey(map, term) THEN Outcome(map, file, 500, "no")
        ELSE LET new_map == DictDel(map, term)
             IN  save_and_return(new_map, file, io)

----------------------------------------------------------------------------
(* POST /chat: the extraction output and the merge.                        *)
(*                                                                          *)
(* The text the extraction call returns, after the code fences are         *)
(* stripped, is text json.loads rejects, or a JSON value: not an object,   *)
(* an object without "key_terms", an object whose "key_terms" is not an    *)
(* object, or an object whose "key_terms" is an object of entries.         *)

\* a JSON value that is a string, and one that is not (a number, a list, null)
JsonString(s) == [isstr |-> TRUE, v |-> s]
JsonOther == [isstr |-> FALSE, v |-> Empty]

\* one entry of key_terms: its key, and its value (an object with the two
\* fields present or not, or a value that is no object)
ExtractionItem(term, isobj, definition, relevance) ==
    [term |-> term, isobj |-> isobj, definition |-> definition, relevance |-> relevance]

ExtractionOutput(kind, items) == [kind |-> kind, items |-> items]

\* the state of the merge loop: the store, new_terms_added, and whether an
\* AttributeError was raised
MergeState(map, added, raised) == [map |-> map, added |-> added, raised |-> raised]

\* the test of the store left out
merge_is_new_unchecked(term_normalized, map) == term_normalized # Empty

\* if term_normalized and term_normalized not in KEY_TERM_MAP
merge_is_new(term_normalized, map) ==
    term_normalized # Empty /\ ~HasKey(map, term_normalized)

\* details.get(field, default).strip() raises AttributeError unless details is
\* an object and the value a string
FieldRaises(item, field) ==
    \/ ~item.isobj
    \/ field # None /\ ~field[1].isstr

\* the for loop over key_terms_data.items()
RECURSIVE MergeItems(_, _)
MergeItems(items, st) ==
    IF items = <<>> THEN st
    ELSE LET item == Head(items)
         IN  IF FieldRaises(item, item.definition) \/ FieldRaises(item, item.relevance)
             THEN MergeState(st.map, st.added, TRUE)
             ELSE LET definition == strip(Get(item.definition, JsonString(Empty)).v)
                      relevance == strip(Get(item.relevance, JsonString(Low)).v)
                      term_normalized == strip(item.term)
                  IN  IF merge_is_new(term_normalized, st.map)
                      THEN MergeItems(Tail(items),
                               MergeState(DictSet(st.map, term_normalized, definition, relevance),
                                          TRUE, FALSE))
                      ELSE MergeItems(Tail(items), st)

\* the shape of an extraction output
ShapeOf(ext) ==
    IF ext.kind # "key_terms" THEN ext.kind
    ELSE IF \E i \in 1..Len(ext.items) : ~ext.items[i].isobj THEN "entry_not_object"
    ELSE IF \E i \in 1..Len(ext.items) :
                \/ FieldRaises(ext.items[i], ext.items[i].definition)
                \/ FieldRaises(ext.items[i], ext.items[i].relevance)
         THEN "field_not_string"
    ELSE "well_formed"

\* the non-empty terms an extraction output proposes, trimmed
ProposedTerms(ext) == {strip(ext.items[i].term) : i \in 1..Len(ext.items)} \ {Empty}

\* the try block of chat from json.loads on: the inner except catches
\* JSONDecodeError only, the outer except Exception answers 500
chat_merge_outcome(map, file, ext, io) ==
    CASE ext.kind = "not_json" -> Outcome(map, file, 200, "no")
      [] ext.kind = "not_object" -> Outcome(map, file, 500, "no")
      [] ext.kind = "key_terms_not_object" -> Outcome(map, file, 500, "no")
      [] ext.kind = "no_key_terms" -> Outcome(map, file, 200, "no")
      [] OTHER ->
            LET st == MergeItems(ext.items, MergeState(map, FALSE, FALSE))
            IN  IF st.raised THEN Outcome(st.map, file, 500, "no")
                ELSE IF st.added
                     THEN save_and_return(st.map, file, io)
                     ELSE Outcome(st.map, file, 200, "no")

\* a failure of the primary call not raised: the handler goes on to the
\* extraction call
chat_outcome_unguarded(map, file, primary, extraction, ext, io) ==
    IF extraction # "ok" THEN [Outcome(map, file, 500, "no") EXCEPT !.calls = 2]
    ELSE [chat_merge_outcome(map, file, ext, io) EXCEPT !.calls = 2]

\* chat: primary and extraction are "ok" or "fails" (the call, or reading
\* choices[0].message.content of its response, raises); each call is issued
\* once, the extraction call after the primary call has given a reply
chat_outcome(map, file, primary, extraction, ext, io) ==
    IF primary # "ok" THEN [Outcome(map, file, 500, "no") EXCEPT !.calls = 1]
    ELSE IF extraction # "ok" THEN [Outcome(map, file, 500, "no") EXCEPT !.calls = 2]
    ELSE [chat_merge_outcome(map, file, ext, io) EXCEPT !.calls = 2]

\* how the two completion calls of one request go: the extraction call is
\* issued only after the primary call has produced a reply
ChatCalls ==
    { [primary |-> "fails", extraction |-> "none"],
      [primary |-> "ok", extraction |-> "fails"],
      [primary |-> "ok", extraction |-> "ok"] }

\* no extraction output: the extraction call was not issued, or failed
NoExtraction == ExtractionOutput("none", <<>>)

\* the entries extraction outputs are made of
ExtractionItems ==
    { ExtractionItem(pandora, TRUE, Some(JsonString(SeedDefinition \o <<" ">>)),
                     Some(JsonString(<<" ">> \o Critical))),
      ExtractionItem(<<" ">> \o Pandora \o <<" ">>, TRUE, None, None),
      ExtractionItem(<<" ">>, TRUE, Some(JsonString(SeedDefinition)), Some(JsonString(Critical))),
      ExtractionItem(Pandora, FALSE, None, None),
      ExtractionItem(Pandora, TRUE, Some(JsonString(SeedDefinition)), Some(JsonOther)) }

\* the keys of a JSON object are distinct
DistinctTerms(items) ==
    \A i, j \in 1..Len(items) : i # j => items[i].term # items[j].term

ExtractionOutputs ==
    { ExtractionOutput(kind, <<>>) :
        kind \in {"not_json", "not_object", "no_key_terms", "key_terms_not_object"} }
    \cup { ExtractionOutput("key_terms", items) :
             items \in {s \in SeqsUpTo(ExtractionItems, MaxItems) : DistinctTerms(s)} }

----------------------------------------------------------------------------
(* The process.                                                            *)
(*                                                                          *)
(* The handlers are coroutines without an await: one request is handled    *)
(* from its first line to its response before the next one starts.         *)

Apply(req, out) ==
    /\ KEY_TERM_MAP' = out.map
    /\ KEY_TERMS_FILE' = out.file
    /\ request' = req
    /\ response' = [status |-> out.status, saved |-> out.saved, calls |-> out.calls]
    /\ message' = Empty
    /\ matched_terms' = <<>>
    /\ UNCHANGED <<phase, inflight>>

\* a handler that does not reach save_key_terms writes nothing: how a write
\* would have gone is then no part of what happened
Reaches(io, out) == io = "ok" \/ out.saved # "no"

\* U is what the environment sends: the terms, definitions and relevances of
\* requests, the extraction outputs, and how writes of the file go
add_key_term(U) ==
    /\ phase = "serving"
    /\ \E term \in U.terms, definition \in U.definitions, relevance \in U.relevances,
          io \in U.io :
          \E out \in {add_key_term_outcome(KEY_TERM_MAP, KEY_TERMS_FILE,
                         [term |-> term, definition |-> definition, relevance |-> relevance],
                         io)} :
             /\ Reaches(io, out)
             /\ Apply(KeyTermRequest("add", term, definition, relevance), out)

update_key_term(U) ==
    /\ phase = "serving"
    /\ \E term \in U.terms, definition \in U.definitions, relevance \in U.relevances,
          io \in U.io :
          \E out \in {update_key_term_outcome(KEY_TERM_MAP, KEY_TERMS_FILE,
                         [term |-> term, definition |-> definition, relevance |-> relevance],
                         io)} :
             /\ Reaches(io, out)
             /\ Apply(KeyTermRequest("update", term, definition, relevance), out)

delete_key_term(U) ==
    /\ phase = "serving"
    /\ \E term \in U.terms, io \in U.io :
          \E out \in {delete_key_term_outcome(KEY_TERM_MAP, KEY_TERMS_FILE, term, io)} :
             /\ Reaches(io, out)
             /\ Apply(KeyTermRequest("delete", term, None, None), out)

\* the matching done on the store the merge has left
chat_matched_terms_after(user_message, map, new_map) ==
    extract_key_terms_from_text(user_message, new_map)

\* matched_terms = extract_key_terms_from_text(user_message, KEY_TERM_MAP), the
\* first statement of chat after the message is read: map is the store the
\* request found, new_map the store it leaves
chat_matched_terms(user_message, map, new_map) ==
    extract_key_terms_from_text(user_message, map)

chat(U) ==
    /\ phase = "serving"
    /\ \E calls \in ChatCalls, io \in U.io, user_message \in U.messages :
          \E ext \in IF calls.extraction = "ok" THEN U.outputs ELSE {NoExtraction} :
             \E out \in {chat_outcome(KEY_TERM_MAP, KEY_TERMS_FILE, calls.primary,
                                      calls.extraction, ext, io)} :
                /\ Reaches(io, out)
                /\ KEY_TERM_MAP' = out.map
                /\ KEY_TERMS_FILE' = out.file
                /\ request' = [NoRequest EXCEPT !.op = "chat", !.primary = calls.primary,
                                                !.extraction = calls.extraction,
                                                !.shape = ShapeOf(ext),
                                                !.proposed = ProposedTerms(ext)]
                /\ response' = [status |-> out.status, saved |-> out.saved,
                                calls |-> out.calls]
                /\ message' = user_message
                /\ matched_terms' = chat_matched_terms(user_message, KEY_TERM_MAP, out.map)
                /\ UNCHANGED <<phase, inflight>>

\* the module is imported: KEY_TERM_MAP = load_key_terms(KEY_TERMS_FILE)
Startup ==
    /\ phase = "stopped"
    /\ LET loaded == load_key_terms(KEY_TERMS_FILE)
       IN  /\ KEY_TERM_MAP' = loaded.key_terms
           /\ KEY_TERMS_FILE' = loaded.file
    /\ phase' = "serving"
    /\ request' = [NoRequest EXCEPT !.op = "load"]
    /\ response' = [NoResponse EXCEPT !.saved = IF KEY_TERMS_FILE.exists THEN "no"
                                                ELSE "seeded"]
    /\ message' = Empty
    /\ matched_terms' = <<>>
    /\ UNCHANGED inflight

\* the process ends; the next one starts from the file
Shutdown ==
    /\ phase = "serving"
    /\ phase' = "stopped"
    /\ KEY_TERM_MAP' = <<>>
    /\ request' = NoRequest
    /\ response' = NoResponse
    /\ message' = Empty
    /\ matched_terms' = <<>>
    /\ UNCHANGED <<KEY_TERMS_FILE, inflight>>

InitWith(files) ==
    /\ KEY_TERM_MAP = <<>>
    /\ KEY_TERMS_FILE \in files
    /\ phase = "stopped"
    /\ request = NoRequest
    /\ response = NoResponse
    /\ message = Empty
    /\ matched_terms = <<>>
    /\ inflight = NoneInFlight

----------------------------------------------------------------------------
(* Spec: every write of the file succeeds. *)

\* the lines a file found at startup is made of
FileLines ==
    { JsonLine(Some(Pandora), Some(SeedDefinition), Some(High)),
      JsonLine(Some(<<" ">> \o Pandora), Some(SeedDefinition), None),
      JsonLine(Some(Pandora), None, Some(Medium)),
      JsonLine(None, Some(SeedDefinition), Some(High)),
      BlankLine,
      MalformedLine }

InitialFiles == {NoFile} \cup {FileOf(lines) : lines \in SeqsUpTo(FileLines, MaxFileLines)}

Requests ==
    [terms |-> RawTerms, definitions |-> RequestDefinitions,
     relevances |-> RequestRelevances, outputs |-> ExtractionOutputs, io |-> {"ok"},
     messages |-> {Empty}]

Init == InitWith(InitialFiles)

Next ==
    \/ Startup
    \/ Shutdown
    \/ add_key_term(Requests)
    \/ update_key_term(Requests)
    \/ delete_key_term(Requests)
    \/ chat(Requests)

Spec == Init /\ [][Next]_vars

----------------------------------------------------------------------------
(* SpecIO: a write of the file may fail, any number of times. *)

RequestsIO ==
    [terms |-> {Pandora, pandora},
     definitions |-> {None, Some(<<" ">> \o SeedDefinition)},
     relevances |-> {None},
     outputs |-> { ExtractionOutput("not_json", <<>>),
                   ExtractionOutput("key_terms",
                       <<ExtractionItem(pandora, TRUE, None, None)>>),
                   ExtractionOutput("key_terms",
                       <<ExtractionItem(pandora, TRUE, None, None),
                         ExtractionItem(Pandora, FALSE, None, None)>>) },
     io |-> IOOutcomes,
     messages |-> {Empty, pandora}]

InitialFilesIO ==
    { NoFile,
      FileOf(<<MalformedLine>>),
      FileOf(<<JsonLine(Some(pandora), None, None), JsonLine(Some(pandora), None, Some(High))>>) }

InitIO == InitWith(InitialFilesIO)

NextIO ==
    \/ Startup
    \/ Shutdown
    \/ add_key_term(RequestsIO)
    \/ update_key_term(RequestsIO)
    \/ delete_key_term(RequestsIO)
    \/ chat(RequestsIO)

SpecIO == InitIO /\ [][NextIO]_vars

----------------------------------------------------------------------------
(* SpecMatch: extract_key_terms_from_text on a message and a store. *)

cat == <<"c", "a", "t">>

\* the terms of the stores matched against
MatchTerms == {cat, <<"C", "a", "t">>, cat \o <<"+">>}

MatchStores ==
    { [i \in 1..Len(terms) |-> Entry(terms[i], Empty, Low)] :
        terms \in {t \in SeqsUpTo(MatchTerms, 2) : \A i, j \in 1..Len(t) : i # j => t[i] # t[j]} }

\* the pieces messages are made of
MessagePieces == {cat, <<"C", "A", "T">>, <<"s">>, <<" ">>, <<"+">>}

RECURSIVE Concat(_)
Concat(pieces) == IF pieces = <<>> THEN <<>> ELSE Head(pieces) \o Concat(Tail(pieces))

Messages == {Concat(pieces) : pieces \in SeqsUpTo(MessagePieces, MaxMsgPieces)}

InitMatch ==
    /\ KEY_TERM_MAP \in MatchStores
    /\ KEY_TERMS_FILE = FileOf(SavedLines(KEY_TERM_MAP))
    /\ phase = "serving"
    /\ request = NoRequest
    /\ response = NoResponse
    /\ message \in Messages
    /\ matched_terms = <<>>
    /\ inflight = NoneInFlight

\* matched_terms = extract_key_terms_from_text(user_message, KEY_TERM_MAP)
Match ==
    /\ request.op = "none"
    /\ matched_terms' = extract_key_terms_from_text(message, KEY_TERM_MAP)
    /\ request' = [NoRequest EXCEPT !.op = "match"]
    /\ UNCHANGED <<KEY_TERM_MAP, KEY_TERMS_FILE, phase, response, message, inflight>>

NextMatch == Match

SpecMatch == InitMatch /\ [][NextMatch]_vars

----------------------------------------------------------------------------
(* SpecConc: two chat requests under way in one process.                   *)
(*                                                                          *)
(* chat is a coroutine without an await, so the event loop runs it from    *)
(* its first line to its return. SpecConc lets the two requests take turns *)
(* at every call the handler makes (the primary call, the extraction call, *)
(* the merge loop, save_key_terms): the runs of the program are the runs   *)
(* of SpecConc in which the steps of a request follow one another.         *)

\* the store of the process read again from the file for each request
merge_store_reloaded(map, file) == load_key_terms(file).key_terms

\* KEY_TERM_MAP as the merge loop reads and writes it: the one dict of the
\* module, shared by all requests
merge_store(map, file) == map

\* json.loads, extraction_data.get("key_terms", {}) and the merge loop, up to
\* the test of new_terms_added: the store left, and where the request goes
\* ("merged": on to save_key_terms; "done": answered with status)
merge_step(map, ext) ==
    CASE ext.kind = "not_json" -> [map |-> map, pc |-> "done", status |-> 200]
      [] ext.kind = "not_object" -> [map |-> map, pc |-> "done", status |-> 500]
      [] ext.kind = "key_terms_not_object" -> [map |-> map, pc |-> "done", status |-> 500]
      [] ext.kind = "no_key_terms" -> [map |-> map, pc |-> "done", status |-> 200]
      [] OTHER ->
            LET st == MergeItems(ext.items, MergeState(map, FALSE, FALSE))
            IN  IF st.raised THEN [map |-> st.map, pc |-> "done", status |-> 500]
                ELSE IF st.added THEN [map |-> st.map, pc |-> "merged", status |-> 0]
                ELSE [map |-> st.map, pc |-> "done", status |-> 200]

\* the extraction outputs of SpecConc
ConcOutputs ==
    { ExtractionOutput("not_json", <<>>),
      ExtractionOutput("key_terms", <<ExtractionItem(pandora, TRUE, None, None)>>),
      ExtractionOutput("key_terms", <<ExtractionItem(cat, TRUE, None, None)>>),
      ExtractionOutput("key_terms", <<ExtractionItem(cat, TRUE, None, None),
                                      ExtractionItem(Pandora, FALSE, None, None)>>) }

\* the process has been imported with no file, and both requests have arrived
InitConc ==
    /\ KEY_TERM_MAP = load_key_terms(NoFile).key_terms
    /\ KEY_TERMS_FILE = load_key_terms(NoFile).file
    /\ phase = "serving"
    /\ request = NoRequest
    /\ response = NoResponse
    /\ message = Empty
    /\ matched_terms = <<>>
    /\ inflight = [r \in ChatRequests |-> [NoneInFlight[r] EXCEPT !.pc = "received"]]

\* the primary completion call returns a reply, or raises
primary_call(r) ==
    /\ inflight[r].pc = "received"
    /\ \E primary \in {"ok", "fails"} :
          inflight' = [inflight EXCEPT ![r] =
                         IF primary = "ok" THEN [@ EXCEPT !.pc = "replied"]
                         ELSE [@ EXCEPT !.pc = "done", !.status = 500]]
    /\ UNCHANGED <<KEY_TERM_MAP, KEY_TERMS_FILE, phase, request, response, message,
                   matched_terms>>

\* the extraction call returns its output, or raises
extraction_call(r) ==
    /\ inflight[r].pc = "replied"
    /\ \/ \E ext \in ConcOutputs :
             inflight' = [inflight EXCEPT ![r] = [@ EXCEPT !.pc = "extracted", !.ext = ext]]
       \/ inflight' = [inflight EXCEPT ![r] = [@ EXCEPT !.pc = "done", !.status = 500]]
    /\ UNCHANGED <<KEY_TERM_MAP, KEY_TERMS_FILE, phase, request, response, message,
                   matched_terms>>

\* the extraction output is parsed and merged into the store
merge(r) ==
    /\ inflight[r].pc = "extracted"
    /\ LET map == merge_store(KEY_TERM_MAP, KEY_TERMS_FILE)
           step == merge_step(map, inflight[r].ext)
       IN  /\ KEY_TERM_MAP' = step.map
           /\ inflight' = [inflight EXCEPT ![r] =
                  [@ EXCEPT !.pc = step.pc, !.status = step.status,
                            !.added = Keys(step.map) \ Keys(map),
                            !.raced = \E o \in ChatRequests \ {r} :
                                         inflight[o].pc = "merged"]]
    /\ UNCHANGED <<KEY_TERMS_FILE, phase, request, response, message, matched_terms>>

\* if new_terms_added: save_key_terms(KEY_TERMS_FILE, KEY_TERM_MAP), and the
\* reply
save(r) ==
    /\ inflight[r].pc = "merged"
    /\ KEY_TERMS_FILE' = save_key_terms(KEY_TERMS_FILE, KEY_TERM_MAP, "ok")
    /\ inflight' = [inflight EXCEPT ![r] = [@ EXCEPT !.pc = "done", !.status = 200]]
    /\ UNCHANGED <<KEY_TERM_MAP, phase, request, response, message, matched_terms>>

NextConc ==
    \E r \in ChatRequests :
        \/ primary_call(r)
        \/ extraction_call(r)
        \/ merge(r)
        \/ save(r)

SpecConc == InitConc /\ [][NextConc]_vars

----------------------------------------------------------------------------
(* Properties. *)

Handled(op) == request.op = op /\ phase = "serving"

\* C1: an add whose trimmed term is already a key of the store answers 400
\* and leaves the store and the file exactly as they were, with no rewrite.
C1_AddExistingRejected ==
    [][request'.op = "add" /\ HasKey(KEY_TERM_MAP, strip(request'.term))
         => /\ response'.status = 400
            /\ response'.saved = "no"
            /\ KEY_TERM_MAP' = KEY_TERM_MAP
            /\ KEY_TERMS_FILE' = KEY_TERMS_FILE]_vars

\* an add of a padded term whose trimmed form is a key was answered 400
C1_Witness ==
    /\ Handled("add")
    /\ response.status = 400
    /\ request.term # strip(request.term)
    /\ HasKey(KEY_TERM_MAP, strip(request.term))

\* C2: an update or a delete whose trimmed term is not a key of the store
\* answers 404 and leaves the store and the file unchanged.
C2_AbsentTermRejected ==
    [][request'.op \in {"update", "delete"} /\ ~HasKey(KEY_TERM_MAP, strip(request'.term))
         => /\ response'.status = 404
            /\ response'.saved = "no"
            /\ KEY_TERM_MAP' = KEY_TERM_MAP
            /\ KEY_TERMS_FILE' = KEY_TERMS_FILE]_vars

\* an update of a term absent from a store that holds other terms was answered 404
C2_Witness ==
    /\ Handled("update")
    /\ response.status = 404
    /\ strip(request.term) # Empty
    /\ KEY_TERM_MAP # <<>>

\* C3: the merge of a /chat request keeps every entry the store held, with
\* its definition and relevance, and only adds terms that were not keys.
C3_MergeKeepsEntries ==
    [][request'.op = "chat"
         => /\ Len(KEY_TERM_MAP') >= Len(KEY_TERM_MAP)
            /\ SubSeq(KEY_TERM_MAP', 1, Len(KEY_TERM_MAP)) = KEY_TERM_MAP
            /\ \A j \in (Len(KEY_TERM_MAP) + 1)..Len(KEY_TERM_MAP') :
                  ~HasKey(KEY_TERM_MAP, KEY_TERM_MAP'[j].term)]_vars

\* a well-formed extraction output proposed terms, all of them keys already,
\* and the merge added nothing
C3_Witness ==
    /\ Handled("chat")
    /\ response.status = 200
    /\ request.shape = "well_formed"
    /\ request.proposed # {}
    /\ request.proposed \subseteq Keys(KEY_TERM_MAP)
    /\ response.saved = "no"

\* C4: in every state, what load_key_terms reads from the file save_key_terms
\* writes for the store is the store's mapping term -> {definition, relevance}.
C4_RoundTrip ==
    AsMapping(load_key_terms(WriteFile(KEY_TERMS_FILE, KEY_TERM_MAP)).key_terms)
        = AsMapping(KEY_TERM_MAP)

\* the last term was deleted: the store is empty and so is the file written
C4_Witness ==
    /\ Handled("delete")
    /\ response.status = 200
    /\ KEY_TERM_MAP = <<>>
    /\ KEY_TERMS_FILE = FileOf(<<>>)

\* the offsets of text where key occurs, in any letter case
Occurrences(key, text) == {i \in 0..(Len(text) - Len(key)) : MatchesAt(key, text, i)}

\* the occurrence at offset i has a non-word character, or an end of the
\* text, on both sides
Delimited(key, text, i) ==
    /\ i = 0 \/ ~IsWord(text[i])
    /\ i + Len(key) = Len(text) \/ ~IsWord(text[i + Len(key) + 1])

\* C5: a term that occurs in the message only inside longer words is not
\* returned, and a term that occurs with a non-word character or an end of
\* the message on both sides is returned, whatever the term.
C5_WholeWordMatching ==
    request.op = "match"
    => \A n \in 1..Len(KEY_TERM_MAP) :
          LET key == KEY_TERM_MAP[n].term
              found == \E m \in 1..Len(matched_terms) : matched_terms[m].term = key
              at == Occurrences(key, message)
          IN  /\ (\E i \in at : Delimited(key, message, i)) => found
              /\ (at # {} /\ \A i \in at : ~Delimited(key, message, i)) => ~found

\* C6: once the primary call has produced a reply and the extraction call
\* has returned, the request answers 200 whatever the extraction output is.
C6_ExtractionNeverFails ==
    Handled("chat") /\ request.primary = "ok" /\ request.extraction = "ok"
    => response.status = 200

\* C7: no two entries of the store have terms that are equal once trimmed.
C7_TrimmedTermsUnique ==
    \A i, j \in 1..Len(KEY_TERM_MAP) :
        i # j => strip(KEY_TERM_MAP[i].term) # strip(KEY_TERM_MAP[j].term)

CaseUnique(map) ==
    \A i, j \in 1..Len(map) : i # j => lower(map[i].term) # lower(map[j].term)

C9_RelevanceEnumerated ==
    \A i \in 1..Len(KEY_TERM_MAP) : KEY_TERM_MAP[i].relevance \in {High, Medium, Low}

\* C10: when an add, an update, a delete or a chat merge has answered 200
\* and its write of the file did not fail, the file holds one record per
\* entry of the store and nothing else.
C10_FileMirrorsStore ==
    request.op \in {"add", "update", "delete", "chat"}
        /\ response.status = 200 /\ response.saved = "ok"
    => /\ KEY_TERMS_FILE.exists
       /\ Len(KEY_TERMS_FILE.lines) = Len(KEY_TERM_MAP)
       /\ \A i \in 1..Len(KEY_TERMS_FILE.lines) :
             /\ KEY_TERMS_FILE.lines[i].kind = "json"
             /\ KEY_TERMS_FILE.lines[i].term # None
             /\ KEY_TERMS_FILE.lines[i].definition # None
             /\ KEY_TERMS_FILE.lines[i].relevance # None
       /\ { <<KEY_TERMS_FILE.lines[i].term[1], KEY_TERMS_FILE.lines[i].definition[1],
              KEY_TERMS_FILE.lines[i].relevance[1]>> : i \in 1..Len(KEY_TERMS_FILE.lines) }
            = AsMapping(KEY_TERM_MAP)

\* a chat merge added a term to a store that held one and wrote the file
C10_Witness ==
    /\ Handled("chat")
    /\ response.status = 200
    /\ response.saved = "ok"
    /\ Len(KEY_TERM_MAP) = 2

\* C11: when load_key_terms runs and the file does not exist, it creates the
\* file with the one seed record and returns a store of exactly one entry:
\* Pandora, the fixed definition, High. The file and the store then agree.
C11_AbsentFileSeeded ==
    [][request'.op = "load" /\ ~KEY_TERMS_FILE.exists
         => /\ KEY_TERM_MAP' = <<Entry(Pandora, SeedDefinition, High)>>
            /\ KEY_TERMS_FILE'.exists
            /\ KEY_TERMS_FILE'.lines
                 = <<JsonLine(Some(Pandora), Some(SeedDefinition), Some(High))>>
            /\ LoadLines(KEY_TERMS_FILE'.lines, <<>>) = KEY_TERM_MAP']_vars

\* the module was imported with no file: the seed is in the store
C11_Witness ==
    /\ Handled("load")
    /\ response.saved = "seeded"
    /\ Keys(KEY_TERM_MAP) = {Pandora}

\* C12, as stated: when load_key_terms runs on an existing file that holds no
\* record, the store is seeded with exactly one entry, Pandora of relevance
\* High.
C12_EmptyFileSeeded ==
    [][request'.op = "load" /\ KEY_TERMS_FILE.exists /\ KEY_TERMS_FILE.lines = <<>>
         => /\ Len(KEY_TERM_MAP') = 1
            /\ KEY_TERM_MAP'[1].term = Pandora
            /\ KEY_TERM_MAP'[1].relevance = High]_vars

\* C12, as the code has it: when load_key_terms runs on an existing file that
\* holds no record, the store is empty and the file is left as it is; the
\* seed is given to an absent file only.
C12_EmptyFileLoadsEmpty ==
    [][request'.op = "load" /\ KEY_TERMS_FILE.exists /\ KEY_TERMS_FILE.lines = <<>>
         => /\ KEY_TERM_MAP' = <<>>
            /\ KEY_TERMS_FILE' = KEY_TERMS_FILE]_vars

\* the module was imported with a file of no lines: the store is empty
C12_Witness ==
    /\ Handled("load")
    /\ KEY_TERMS_FILE = FileOf(<<>>)
    /\ KEY_TERM_MAP = <<>>

\* C13: a failed write is never surfaced: when save_key_terms fails inside an
\* add, an update, a delete or a chat merge, the request still answers 200 and
\* the change of the store stays: the added entry is present, the supplied
\* fields of the updated entry are changed, the deleted entry is gone, the
\* terms the chat merge accepted are keys.
C13_WriteFailureNotSurfaced ==
    request.op \in {"add", "update", "delete", "chat"}
        /\ response.saved \in {"open_fails", "write_fails"}
    => /\ response.status = 200
       /\ request.op = "add" => HasKey(KEY_TERM_MAP, strip(request.term))
       /\ request.op = "update"
            => /\ HasKey(KEY_TERM_MAP, strip(request.term))
               /\ request.definition # None
                    => Lookup(KEY_TERM_MAP, strip(request.term)).definition
                         = strip(request.definition[1])
               /\ request.relevance # None
                    => Lookup(KEY_TERM_MAP, strip(request.term)).relevance
                         = strip(request.relevance[1])
       /\ request.op = "delete" => ~HasKey(KEY_TERM_MAP, strip(request.term))
       /\ request.op = "chat"
            => /\ request.proposed # {}
               /\ request.proposed \subseteq Keys(KEY_TERM_MAP)

\* an add answered 200 although its write failed, and the store holds an
\* entry the file does not
C13_Witness ==
    /\ Handled("add")
    /\ response.status = 200
    /\ response.saved \in {"open_fails", "write_fails"}
    /\ HasKey(KEY_TERM_MAP, strip(request.term))
    /\ ~HasKey(LoadLines(KEY_TERMS_FILE.lines, <<>>), strip(request.term))

\* C14: an update of term T that answers 200 overwrites the fields the request
\* carries and nothing else: a field it does not carry keeps its value, every
\* other entry is unchanged, and the terms of the store and their order are
\* the same.
C14_UpdateOnlySuppliedFields ==
    [][request'.op = "update" /\ response'.status = 200
         => /\ Len(KEY_TERM_MAP') = Len(KEY_TERM_MAP)
            /\ \A i \in 1..Len(KEY_TERM_MAP) :
                  /\ KEY_TERM_MAP'[i].term = KEY_TERM_MAP[i].term
                  /\ KEY_TERM_MAP[i].term # strip(request'.term)
                       => KEY_TERM_MAP'[i] = KEY_TERM_MAP[i]
                  /\ KEY_TERM_MAP[i].term = strip(request'.term)
                       => /\ KEY_TERM_MAP'[i].definition
                               = IF request'.definition # None
                                 THEN strip(request'.definition[1])
                                 ELSE KEY_TERM_MAP[i].definition
                          /\ KEY_TERM_MAP'[i].relevance
                               = IF request'.relevance # None
                                 THEN strip(request'.relevance[1])
                                 ELSE KEY_TERM_MAP[i].relevance]_vars

\* an update that carried a relevance and no definition was answered 200: the
\* entry has the new relevance and a definition that is not the default, and
\* the store holds another entry
C14_Witness ==
    /\ Handled("update")
    /\ response.status = 200
    /\ request.definition = None
    /\ request.relevance # None
    /\ Len(KEY_TERM_MAP) >= 2
    /\ Lookup(KEY_TERM_MAP, strip(request.term)).definition # Empty
    /\ Lookup(KEY_TERM_MAP, strip(request.term)).relevance = strip(request.relevance[1])

\* C15: when the primary completion call fails, the request answers 500; the
\* call is not made again and the extraction call is not issued, and the
\* store and the file are as they were.
C15_PrimaryFailureAborts ==
    [][request'.op = "chat" /\ request'.primary = "fails"
         => /\ response'.status = 500
            /\ response'.calls = 1
            /\ response'.saved = "no"
            /\ KEY_TERM_MAP' = KEY_TERM_MAP
            /\ KEY_TERMS_FILE' = KEY_TERMS_FILE]_vars

\* a chat whose primary call failed was answered 500 after one call
C15_Witness ==
    /\ Handled("chat")
    /\ request.primary = "fails"
    /\ response.status = 500
    /\ response.calls = 1
    /\ KEY_TERM_MAP # <<>>

\* C17: the chat merge writes the file at most once per request: once, after
\* all additions, when at least one term was added in this turn; not at all
\* when no term was added or the extraction output was not JSON.
C17_MergeSavesOnce ==
    [][request'.op = "chat"
         => LET added == Keys(KEY_TERM_MAP') \ Keys(KEY_TERM_MAP)
            IN  /\ added # {}
                     => /\ response'.saved # "no"
                        /\ KEY_TERMS_FILE' = FileOf(SavedLines(KEY_TERM_MAP'))
                /\ added = {} \/ request'.shape = "not_json"
                     => /\ response'.saved = "no"
                        /\ KEY_TERMS_FILE' = KEY_TERMS_FILE]_vars

\* the index of the first line of lines that json.loads rejects, 0 if none
FirstMalformed(lines) ==
    IF \E i \in 1..Len(lines) : lines[i].kind = "malformed"
    THEN CHOOSE i \in 1..Len(lines) :
            /\ lines[i].kind = "malformed"
            /\ \A j \in 1..(i - 1) : lines[j].kind # "malformed"
    ELSE 0

\* C18: a malformed line fails the whole load: when a line of the file does
\* not parse, load_key_terms does not give the store made of the records
\* before that line.
C18_MalformedLineFailsLoad ==
    [][request'.op = "load" /\ KEY_TERMS_FILE.exists
                           /\ FirstMalformed(KEY_TERMS_FILE.lines) > 0
         => LET preceding == SubSeq(KEY_TERMS_FILE.lines, 1,
                                    FirstMalformed(KEY_TERMS_FILE.lines) - 1)
            IN  LoadLines(preceding, <<>>) # <<>>
                    => KEY_TERM_MAP' # LoadLines(preceding, <<>>)]_vars

\* C19: a chat that answers 500 leaves the store as it found it, whichever
\* step failed: no term of its extraction output has entered the store, and
\* the store and the file agree as they did.
C19_FailedChatLeavesStore ==
    [][request'.op = "chat" /\ response'.status = 500
         => /\ KEY_TERM_MAP' = KEY_TERM_MAP
            /\ KEY_TERMS_FILE' = KEY_TERMS_FILE]_vars

\* C20: when a chat answers its reply, every term accepted from that turn's
\* extraction is a key of the store and, if the store changed, the write of
\* the file has been attempted; the listing of GET /key-terms holds those
\* terms, and a term leaves the store only by a delete of it or with the
\* process. The terms matched for the turn's prompt are entries of the store
\* as the request found it: a term added in the turn is not among them.
C20_MergeBeforeReply ==
    [][/\ request'.op = "chat" /\ response'.status = 200
            => /\ request'.proposed \subseteq Keys(KEY_TERM_MAP')
               /\ request'.proposed \subseteq {e[1] : e \in AsMapping(KEY_TERM_MAP')}
               /\ Keys(KEY_TERM_MAP') # Keys(KEY_TERM_MAP) => response'.saved # "no"
               /\ \A i \in 1..Len(matched_terms') :
                     HasKey(KEY_TERM_MAP, matched_terms'[i].term)
       /\ \A t \in Keys(KEY_TERM_MAP) \ Keys(KEY_TERM_MAP') :
             \/ request'.op = "delete" /\ strip(request'.term) = t
             \/ phase' = "stopped"]_vars

\* a chat answered 200 after its merge added a term the message names: the
\* term is a key of the store and is not among the matched terms
C20_Witness ==
    /\ Handled("chat")
    /\ response.status = 200
    /\ response.saved # "no"
    /\ matched_terms # <<>>
    /\ \E t \in request.proposed :
          /\ HasKey(KEY_TERM_MAP, t)
          /\ re_search(t, message)
          /\ \A i \in 1..Len(matched_terms) : matched_terms[i].term # t

\* both requests have answered 200 and each has added a term of its own
BothAdded ==
    /\ \A r \in ChatRequests :
          /\ inflight[r].pc = "done"
          /\ inflight[r].status = 200
          /\ inflight[r].added # {}
    /\ \A r, o \in ChatRequests : r # o => inflight[r].added \cap inflight[o].added = {}

\* the terms of the records of the file
FileTerms == Keys(LoadLines(KEY_TERMS_FILE.lines, <<>>))

====
